---- MODULE Spec2Model ----
(***************************************************************************)
(* Fact-checking widget (streamlit-app.py).                                *)
(*                                                                         *)
(* The script main() is re-executed from its first line on every user      *)
(* interaction.  One execution is a "run": pc is the position of the run   *)
(* in main(), "idle" between runs.  Widget values (API key, model,         *)
(* temperature, headline) and st.session_state survive between runs; the   *)
(* locals of main() do not.                                                *)
(***************************************************************************)
EXTENDS Integers, Sequences, FiniteSets, TLC

(***************************************************************************)
(* Bounds of the model.                                                    *)
(***************************************************************************)
MaxFeed == 6        \* longest feed handed to the feed pipeline on its own
MaxUIFeed == 1      \* longest feed answered to a 'Fetch' inside the widget
MaxChoices == 2     \* most candidates in one chat-completion response

(***************************************************************************)
(* Program constants.                                                      *)
(***************************************************************************)
SampleSize == 5     \* if len(sample) == 5: break
DefaultTemperature == 3   \* slider value=0.3, in tenths
MaxTemperature == 10      \* slider max_value=1.0, in tenths

ModelNames ==
    {"GPT-3.5 Turbo", "GPT-4o", "ChatGPT-4o (Latest used in ChatGPT)",
     "GPT-4o Mini", "o1", "o1 Mini"}

MODEL_MAP ==
    [m \in ModelNames |->
        CASE m = "GPT-3.5 Turbo" -> "gpt-3.5-turbo"
          [] m = "GPT-4o" -> "gpt-4o"
          [] m = "ChatGPT-4o (Latest used in ChatGPT)" -> "chatgpt-4o-latest"
          [] m = "GPT-4o Mini" -> "gpt-4o-mini"
          [] m = "o1" -> "o1"
          [] m = "o1 Mini" -> "o1-mini"]

DefaultModel == "GPT-3.5 Turbo"   \* selectbox index=0

(***************************************************************************)
(* Feed entries.  An entry is a feedparser dictionary; a key that the feed *)
(* did not supply is absent.  None is what .get() answers for an absent    *)
(* key; attribute access (entry.title) on an absent key raises             *)
(* AttributeError instead.                                                 *)
(***************************************************************************)
None == "<None>"

Titles ==
    << "Storm closes coastal highway", "Senate passes budget bill",
       "New comet visible this week", "City council bans scooters",
       "Markets rally after rate cut", "Team wins title in overtime",
       "Probe reaches outer planet", "Museum reopens after fire",
       "Drought eases in the valley" >>

GoodEntry(k) ==
    [ id        |-> k,
      title     |-> Titles[k],
      link      |-> "https://news.google.com/rss/articles/x",
      source    |-> [present |-> TRUE, href |-> "https://www.example.com",
                     title |-> "Example News"],
      published |-> "Mon, 02 Nov 2026 09:00:00 GMT" ]

NoSource == [present |-> FALSE, href |-> None, title |-> None]

BadShapes ==
    {"title_missing", "title_empty", "title_empty_link_missing",
     "link_missing", "link_empty",
     "source_missing", "source_href_missing", "source_title_empty",
     "published_missing", "published_empty"}

BadEntry(k, shape) ==
    LET g == GoodEntry(k) IN
    CASE shape = "title_missing" -> [g EXCEPT !.title = None]
      [] shape = "title_empty" -> [g EXCEPT !.title = ""]
      [] shape = "title_empty_link_missing" ->
            [g EXCEPT !.title = "", !.link = None]
      [] shape = "link_missing" -> [g EXCEPT !.link = None]
      [] shape = "link_empty" -> [g EXCEPT !.link = ""]
      [] shape = "source_missing" -> [g EXCEPT !.source = NoSource]
      [] shape = "source_href_missing" -> [g EXCEPT !.source.href = None]
      [] shape = "source_title_empty" -> [g EXCEPT !.source.title = ""]
      [] shape = "published_missing" -> [g EXCEPT !.published = None]
      [] shape = "published_empty" -> [g EXCEPT !.published = ""]

\* A feed of n entries whose first j entries are malformed in one way.
FeedOf(n, shape, j) ==
    [k \in 1..n |-> IF k <= j THEN BadEntry(k, shape) ELSE GoodEntry(k)]

Feeds(max) ==
    UNION { UNION { { FeedOf(n, s, j) : s \in BadShapes } : j \in 0..n }
            : n \in 0..max }

(***************************************************************************)
(* Python truthiness of a field value: None and "" are falsy.              *)
(***************************************************************************)
Truthy(v) == v # None /\ v # ""

(***************************************************************************)
(* get_recent_articles: [entry for entry in feed.entries                   *)
(*                       if entry.title and entry.link]                    *)
(* entry.title raises when the key is absent; entry.link is only read when *)
(* entry.title is truthy ('and' short-circuits).                           *)
(***************************************************************************)
AttrRaises(entry) ==
    \/ entry.title = None
    \/ Truthy(entry.title) /\ entry.link = None

HasTitleAndLink(entry) == Truthy(entry.title) /\ Truthy(entry.link)

GetRecentRaises(f) == \E k \in 1..Len(f) : AttrRaises(f[k])

RecentArticles(f) == SelectSeq(f, HasTitleAndLink)

(***************************************************************************)
(* random.shuffle: any permutation of the list.                            *)
(***************************************************************************)
RECURSIVE PermsOf(_, _)
PermsOf(s, idx) ==
    IF idx = {} THEN { << >> }
    ELSE UNION { { <<s[k]>> \o p : p \in PermsOf(s, idx \ {k}) } : k \in idx }

Shuffles(s) == PermsOf(s, 1..Len(s))

(***************************************************************************)
(* sample_articles, the loop over the shuffled list.  The body of the try  *)
(* raises when the entry has no source (None.get); the bare except passes. *)
(* picked records the positions appended from, examined the last position  *)
(* the loop looked at.                                                     *)
(***************************************************************************)
SourceGetRaises(article) == ~article.source.present

Qualifies(article) ==
    /\ ~SourceGetRaises(article)
    /\ Truthy(article.title)
    /\ Truthy(article.link)
    /\ Truthy(article.source.href)
    /\ Truthy(article.source.title)
    /\ Truthy(article.published)

SampleDict(article) ==
    [ title          |-> article.title,
      href           |-> article.link,
      source_domain  |-> article.source.href,
      source_title   |-> article.source.title,
      published_date |-> article.published ]

\* a loop that never breaks
LoopNeverBreaks(sample) == FALSE

LoopBreaks(sample) == Len(sample) = SampleSize

RECURSIVE SampleLoop(_, _, _, _)
SampleLoop(articles, i, sample, picked) ==
    IF i > Len(articles)
    THEN [sample |-> sample, picked |-> picked, examined |-> Len(articles)]
    ELSE LET take == Qualifies(articles[i])
             s2 == IF take THEN Append(sample, SampleDict(articles[i]))
                   ELSE sample
             p2 == IF take THEN Append(picked, i) ELSE picked
         IN IF LoopBreaks(s2)
            THEN [sample |-> s2, picked |-> p2, examined |-> i]
            ELSE SampleLoop(articles, i + 1, s2, p2)

SampleArticlesResult(articles) == SampleLoop(articles, 1, << >>, << >>)

(***************************************************************************)
(* The fact-check request and response.                                    *)
(***************************************************************************)
Headlines == {"", "The moon is made of cheese", "Rock & roll <b>is</b> dead."}
Keys == {"", "sk-test"}
Contents == {"That is very unlikely to be true.", "  Plausible.\n"}

\* f"I saw something today that claimed {article_title}. " "Do you think ..."
Prompt(h) ==
    "I saw something today that claimed " \o h
        \o ". Do you think that this is likely to be true?"

\* a check that lets every headline through
HeadlineAlwaysGiven(h) == TRUE

\* if not article_title: ... else: ...
HeadlineGiven(h) == h # ""

\* a model for which only "o1" is recognised
OmitsTemperatureO1Only(id) == id = "o1"

\* if model_id in ["o1", "o1-mini"]
OmitsTemperature(id) == id \in {"o1", "o1-mini"}

UserMessages(prompt) == << [role |-> "user", content |-> prompt] >>

\* client.chat.completions.create(model=..., messages=[...]) : no temperature
RequestWithoutTemperature(id, prompt) ==
    [model |-> id, messages |-> UserMessages(prompt), temperature |-> << >>]

\* client.chat.completions.create(model=..., messages=[...], temperature=...)
RequestWithTemperature(id, prompt, t) ==
    [model |-> id, messages |-> UserMessages(prompt), temperature |-> <<t>>]

ChoiceLists ==
    UNION { [1..n -> { [message |-> [content |-> c]] : c \in Contents }]
            : n \in 1..MaxChoices }

Responses == { [choices |-> cs] : cs \in ChoiceLists }

\* the content of the last candidate instead of the first
LastContent(r) == r.choices[Len(r.choices)].message.content

\* response.choices[0].message.content
FirstContent(r) == r.choices[1].message.content

(***************************************************************************)
(* State.                                                                  *)
(***************************************************************************)
VARIABLES
    openai_api_key,     \* value of the "OpenAI API Key" text input
    selected_model,     \* value of the model selectbox
    temperature,        \* value of the slider, in tenths
    article_title,      \* value of the headline text input
    api_key_valid,      \* st.session_state.api_key_valid ("unset" at first)
    articles_retrieved, \* st.session_state.articles_retrieved
    client,             \* the global client: the key it was built with
    pc,                 \* position of the current run in main()
    pressed,            \* the button whose press started the run
    probe,              \* outcome of client.models.list() in this run
    rendered,           \* widgets on the page
    shown,              \* messages written to the page in this run
    model_id,           \* local model_id
    feed,               \* feed.entries answered to this run's fetch
    articles,           \* local articles
    sampled_articles,   \* local sampled_articles
    picked,             \* positions of articles the sample was taken from
    examined,           \* last position of articles the loop looked at
    requests,           \* chat-completion requests issued in this run
    response,           \* local response (<< >> while unassigned)
    fact_check_result,  \* local fact_check_result (<< >> while unassigned)
    displayed,          \* what st.write(fact_check_result) put on the page
    error               \* the exception that ended the run ("" if none)

sessionVars ==
    << openai_api_key, selected_model, temperature, article_title,
       api_key_valid, articles_retrieved, client >>

configVars == << selected_model, temperature, article_title >>

feedVars == << feed, articles, sampled_articles, picked, examined >>

chatVars == << requests, response, fact_check_result, displayed >>

vars ==
    << openai_api_key, selected_model, temperature, article_title,
       api_key_valid, articles_retrieved, client, pc, pressed, probe,
       rendered, shown, model_id, feed, articles, sampled_articles, picked,
       examined, requests, response, fact_check_result, displayed, error >>

\* The locals and the page at the first line of main().
FreshRun(button) ==
    /\ pc' = "credential"
    /\ pressed' = button
    /\ probe' = "none"
    /\ rendered' = {}
    /\ shown' = {}
    /\ model_id' = ""
    /\ feed' = << >>
    /\ articles' = << >>
    /\ sampled_articles' = << >>
    /\ picked' = << >>
    /\ examined' = 0
    /\ requests' = << >>
    /\ response' = << >>
    /\ fact_check_result' = << >>
    /\ displayed' = << >>
    /\ error' = ""

\* A new session at the first line of its first run.
Init ==
    /\ openai_api_key = ""
    /\ selected_model = DefaultModel
    /\ temperature = DefaultTemperature
    /\ article_title = ""
    /\ api_key_valid = "unset"
    /\ articles_retrieved = FALSE
    /\ client = ""
    /\ pc = "credential"
    /\ pressed = "none"
    /\ probe = "none"
    /\ rendered = {}
    /\ shown = {}
    /\ model_id = ""
    /\ feed = << >>
    /\ articles = << >>
    /\ sampled_articles = << >>
    /\ picked = << >>
    /\ examined = 0
    /\ requests = << >>
    /\ response = << >>
    /\ fact_check_result = << >>
    /\ displayed = << >>
    /\ error = ""

(***************************************************************************)
(* User interactions.  Each one reruns the script.  Only a widget that is  *)
(* on the page can be used.                                                *)
(***************************************************************************)
EnterApiKey ==
    /\ pc = "idle"
    /\ "OpenAI API Key" \in rendered
    /\ \E k \in Keys \ {openai_api_key} : openai_api_key' = k
    /\ FreshRun("none")
    /\ UNCHANGED << selected_model, temperature, article_title, api_key_valid,
                    articles_retrieved, client >>

SelectModel ==
    /\ pc = "idle"
    /\ "Select a Model" \in rendered
    /\ \E m \in ModelNames \ {selected_model} : selected_model' = m
    /\ FreshRun("none")
    /\ UNCHANGED << openai_api_key, temperature, article_title, api_key_valid,
                    articles_retrieved, client >>

SetTemperature ==
    /\ pc = "idle"
    /\ "temperature" \in rendered
    /\ \E t \in (0..MaxTemperature) \ {temperature} : temperature' = t
    /\ FreshRun("none")
    /\ UNCHANGED << openai_api_key, selected_model, article_title,
                    api_key_valid, articles_retrieved, client >>

EnterHeadline ==
    /\ pc = "idle"
    /\ "article_title" \in rendered
    /\ \E h \in Headlines \ {article_title} : article_title' = h
    /\ FreshRun("none")
    /\ UNCHANGED << openai_api_key, selected_model, temperature,
                    api_key_valid, articles_retrieved, client >>

PressFetch ==
    /\ pc = "idle"
    /\ "Fetch" \in rendered
    /\ FreshRun("Fetch")
    /\ UNCHANGED sessionVars

PressFactCheck ==
    /\ pc = "idle"
    /\ "Fact check" \in rendered
    /\ FreshRun("Fact check")
    /\ UNCHANGED sessionVars

\* "To enter a new key, refresh the page."
RefreshPage ==
    /\ pc = "idle"
    /\ openai_api_key' = ""
    /\ selected_model' = DefaultModel
    /\ temperature' = DefaultTemperature
    /\ article_title' = ""
    /\ api_key_valid' = "unset"
    /\ articles_retrieved' = FALSE
    /\ client' = ""
    /\ FreshRun("none")

(***************************************************************************)
(* The run, lines 116-147: the credential.                                 *)
(***************************************************************************)
\* else: st.warning("Please provide an OpenAI API key ..."); return
CredentialMissing ==
    /\ pc = "credential"
    /\ openai_api_key = ""
    /\ rendered' = rendered \cup {"OpenAI API Key"}
    /\ shown' = shown \cup {"Please provide an OpenAI API key to proceed."}
    /\ api_key_valid' = "False"
    /\ pc' = "idle"
    /\ UNCHANGED << openai_api_key, configVars, articles_retrieved, client,
                    pressed, probe, model_id, feedVars, chatVars, error >>

\* client = OpenAI(...); client.models.list() answers; the input is cleared
CredentialValid ==
    /\ pc = "credential"
    /\ openai_api_key # ""
    /\ client' = openai_api_key
    /\ probe' = "ok"
    /\ shown' = shown \cup {"OpenAI API successfully loaded and validated!"}
    /\ api_key_valid' = "True"
    /\ rendered' = rendered \ {"OpenAI API Key"}
    /\ pc' = "controls"
    /\ UNCHANGED << openai_api_key, configVars, articles_retrieved, pressed,
                    model_id, feedVars, chatVars, error >>

\* the except branch without its return: the run goes on to the controls
CredentialInvalidNoReturn ==
    /\ pc = "credential"
    /\ openai_api_key # ""
    /\ client' = openai_api_key
    /\ probe' = "fail"
    /\ rendered' = rendered \cup {"OpenAI API Key"}
    /\ shown' = shown \cup {"Whoops! It looks like there was a problem.",
                            "Invalid API key"}
    /\ api_key_valid' = "False"
    /\ pc' = "controls"
    /\ UNCHANGED << openai_api_key, configVars, articles_retrieved, pressed,
                    model_id, feedVars, chatVars, error >>

\* client.models.list() raises; except: st.warning, st.error; return
CredentialInvalid ==
    /\ pc = "credential"
    /\ openai_api_key # ""
    /\ client' = openai_api_key
    /\ probe' = "fail"
    /\ rendered' = rendered \cup {"OpenAI API Key"}
    /\ shown' = shown \cup {"Whoops! It looks like there was a problem.",
                            "Invalid API key"}
    /\ api_key_valid' = "False"
    /\ pc' = "idle"
    /\ UNCHANGED << openai_api_key, configVars, articles_retrieved, pressed,
                    model_id, feedVars, chatVars, error >>

(***************************************************************************)
(* Lines 149-196: the model selectbox, the slider and the 'Fetch' button.  *)
(***************************************************************************)
RenderControls ==
    /\ pc = "controls"
    /\ model_id' = MODEL_MAP[selected_model]
    /\ rendered' = rendered \cup {"Select a Model", "temperature", "Fetch"}
    /\ pc' = IF pressed = "Fetch" THEN "get_recent_articles" ELSE "input"
    /\ UNCHANGED << sessionVars, pressed, probe, shown, feedVars, chatVars,
                    error >>

(***************************************************************************)
(* Lines 196-217: the 'Fetch' handler.                                     *)
(***************************************************************************)
\* articles = get_recent_articles(); an AttributeError is not caught
GetRecentArticles(answers) ==
    /\ pc = "get_recent_articles"
    /\ \E f \in answers :
        /\ feed' = f
        /\ IF GetRecentRaises(f)
           THEN /\ error' = "AttributeError"
                /\ pc' = "idle"
                /\ UNCHANGED articles
           ELSE /\ articles' = RecentArticles(f)
                /\ pc' = "shuffle"
                /\ UNCHANGED error
    /\ UNCHANGED << sessionVars, pressed, probe, rendered, shown, model_id,
                    sampled_articles, picked, examined, chatVars >>

\* random.shuffle(articles)
ShuffleArticles ==
    /\ pc = "shuffle"
    /\ \E p \in Shuffles(articles) : articles' = p
    /\ pc' = "sample"
    /\ UNCHANGED << sessionVars, pressed, probe, rendered, shown, model_id,
                    feed, sampled_articles, picked, examined, chatVars,
                    error >>

\* a handler that also copies the first sampled title into the headline input
SampleArticlesFillsHeadline ==
    /\ pc = "sample"
    /\ LET r == SampleArticlesResult(articles) IN
        /\ sampled_articles' = r.sample
        /\ picked' = r.picked
        /\ examined' = r.examined
        /\ shown' = shown \cup
              IF r.sample # << >>
              THEN {"Recent articles retrieved successfully!"}
              ELSE {"No articles found. Please try again in a few moments."}
        /\ article_title' = IF r.sample # << >> THEN r.sample[1].title
                            ELSE article_title
    /\ articles_retrieved' = TRUE
    /\ pc' = "input"
    /\ UNCHANGED << openai_api_key, selected_model, temperature,
                    api_key_valid, client, pressed, probe, rendered, model_id,
                    feed, articles, chatVars, error >>

\* the loop of sample_articles, the rendering of the sample, line 217
SampleArticles ==
    /\ pc = "sample"
    /\ LET r == SampleArticlesResult(articles) IN
        /\ sampled_articles' = r.sample
        /\ picked' = r.picked
        /\ examined' = r.examined
        /\ shown' = shown \cup
              IF r.sample # << >>
              THEN {"Recent articles retrieved successfully!"}
              ELSE {"No articles found. Please try again in a few moments."}
    /\ articles_retrieved' = TRUE
    /\ pc' = "input"
    /\ UNCHANGED << openai_api_key, configVars, api_key_valid, client,
                    pressed, probe, rendered, model_id, feed, articles,
                    chatVars, error >>

(***************************************************************************)
(* Lines 219-273: the headline input and the 'Fact check' handler.         *)
(***************************************************************************)
\* the headline input and the button are drawn; the button was not pressed
RenderInput ==
    /\ pc = "input"
    /\ rendered' = rendered \cup {"article_title", "Fact check"}
    /\ pc' = IF pressed = "Fact check" THEN "fact_check" ELSE "idle"
    /\ UNCHANGED << sessionVars, pressed, probe, shown, model_id, feedVars,
                    chatVars, error >>

\* if not article_title: st.warning(...)
EmptyHeadline ==
    /\ pc = "fact_check"
    /\ ~HeadlineGiven(article_title)
    /\ shown' = shown \cup {"Please provide the article title"}
    /\ pc' = "result"
    /\ UNCHANGED << sessionVars, pressed, probe, rendered, model_id, feedVars,
                    chatVars, error >>

\* if model_id in ["o1", "o1-mini"]: st.warning(...); create(model, messages)
DispatchWithoutTemperature ==
    /\ pc = "fact_check"
    /\ HeadlineGiven(article_title)
    /\ OmitsTemperature(model_id)
    /\ shown' = shown \cup {"Prompt", "temperature will be ignored"}
    /\ requests' = Append(requests,
           RequestWithoutTemperature(model_id, Prompt(article_title)))
    /\ pc' = "create"
    /\ UNCHANGED << sessionVars, pressed, probe, rendered, model_id, feedVars,
                    response, fact_check_result, displayed, error >>

\* else: create(model, messages, temperature=temperature)
DispatchWithTemperature ==
    /\ pc = "fact_check"
    /\ HeadlineGiven(article_title)
    /\ ~OmitsTemperature(model_id)
    /\ shown' = shown \cup {"Prompt"}
    /\ requests' = Append(requests,
           RequestWithTemperature(model_id, Prompt(article_title),
                                  temperature))
    /\ pc' = "create"
    /\ UNCHANGED << sessionVars, pressed, probe, rendered, model_id, feedVars,
                    response, fact_check_result, displayed, error >>

\* the call answers; fact_check_result = response.choices[0].message.content
ChatSuccess ==
    /\ pc = "create"
    /\ \E r \in Responses :
        /\ response' = <<r>>
        /\ fact_check_result' = << FirstContent(r) >>
    /\ pc' = "result"
    /\ UNCHANGED << sessionVars, pressed, probe, rendered, shown, model_id,
                    feedVars, requests, displayed, error >>

\* a failed call that is issued once more before the error is let through
ChatFailureRetries ==
    /\ pc = "create"
    /\ IF Len(requests) < 2
       THEN /\ requests' = Append(requests, requests[Len(requests)])
            /\ pc' = "create"
            /\ UNCHANGED error
       ELSE /\ error' = "APIError"
            /\ pc' = "idle"
            /\ UNCHANGED requests
    /\ UNCHANGED << sessionVars, pressed, probe, rendered, shown, model_id,
                    feedVars, response, fact_check_result, displayed >>

\* the call raises; nothing catches it, the run ends with the error shown
ChatFailure ==
    /\ pc = "create"
    /\ error' = "APIError"
    /\ pc' = "idle"
    /\ UNCHANGED << sessionVars, pressed, probe, rendered, shown, model_id,
                    feedVars, chatVars >>

\* st.subheader("Fact-checking Result"); st.write(fact_check_result)
ResultBlock ==
    /\ pc = "result"
    /\ shown' = shown \cup {"Fact-checking Result"}
    /\ IF fact_check_result = << >>
       THEN /\ error' = "UnboundLocalError"
            /\ UNCHANGED displayed
       ELSE /\ displayed' = fact_check_result
            /\ UNCHANGED error
    /\ pc' = "idle"
    /\ UNCHANGED << sessionVars, pressed, probe, rendered, model_id, feedVars,
                    requests, response, fact_check_result >>

(***************************************************************************)
(* Specifications.                                                         *)
(***************************************************************************)
UserAction ==
    \/ EnterApiKey
    \/ SelectModel
    \/ SetTemperature
    \/ EnterHeadline
    \/ PressFetch
    \/ PressFactCheck
    \/ RefreshPage

FetchStep(answers) ==
    \/ GetRecentArticles(answers)
    \/ ShuffleArticles
    \/ SampleArticles

RunStep ==
    \/ CredentialMissing
    \/ CredentialValid
    \/ CredentialInvalid
    \/ RenderControls
    \/ FetchStep(Feeds(MaxUIFeed))
    \/ RenderInput
    \/ EmptyHeadline
    \/ DispatchWithoutTemperature
    \/ DispatchWithTemperature
    \/ ChatSuccess
    \/ ChatFailure
    \/ ResultBlock

Next == UserAction \/ RunStep

Spec == Init /\ [][Next]_vars

\* The 'Fetch' handler on its own: a validated session with the default
\* configuration in which 'Fetch' was pressed, at line 198.
InitFeed ==
    /\ openai_api_key = "sk-test"
    /\ selected_model = DefaultModel
    /\ temperature = DefaultTemperature
    /\ article_title = ""
    /\ api_key_valid = "True"
    /\ articles_retrieved = FALSE
    /\ client = "sk-test"
    /\ pc = "get_recent_articles"
    /\ pressed = "Fetch"
    /\ probe = "ok"
    /\ rendered = {"Select a Model", "temperature", "Fetch"}
    /\ shown = {"OpenAI API successfully loaded and validated!"}
    /\ model_id = MODEL_MAP[DefaultModel]
    /\ feed = << >>
    /\ articles = << >>
    /\ sampled_articles = << >>
    /\ picked = << >>
    /\ examined = 0
    /\ requests = << >>
    /\ response = << >>
    /\ fact_check_result = << >>
    /\ displayed = << >>
    /\ error = ""

NextFeed ==
    \/ GetRecentArticles(Feeds(MaxFeed))
    \/ ShuffleArticles
    \/ SampleArticles
    \/ RenderInput

SpecFeed == InitFeed /\ [][NextFeed]_vars

(***************************************************************************)
(* Properties of the feed pipeline (get_recent_articles, sample_articles), *)
(* checked under SpecFeed.                                                 *)
(***************************************************************************)
Min(a, b) == IF a < b THEN a ELSE b

\* title, link, source href, source title and published date all present
\* and non-empty
AllFivePresent(e) ==
    /\ e.title \notin {None, ""}
    /\ e.link \notin {None, ""}
    /\ e.source.present
    /\ e.source.href \notin {None, ""}
    /\ e.source.title \notin {None, ""}
    /\ e.published \notin {None, ""}

QualifyingCount(f) == Cardinality({k \in 1..Len(f) : AllFivePresent(f[k])})

AllFiveNonEmpty(d) ==
    /\ d.title \notin {None, ""}
    /\ d.href \notin {None, ""}
    /\ d.source_domain \notin {None, ""}
    /\ d.source_title \notin {None, ""}
    /\ d.published_date \notin {None, ""}

\* get_recent_articles raised in the 'Fetch' handler
FetchRaised == pressed = "Fetch" /\ pc = "idle" /\ error = "AttributeError"

\* sample_articles returned in the 'Fetch' handler
FetchReturned == pressed = "Fetch" /\ pc = "input"

\* C1: for every feed of N entries of which K have all five fields present
\* and non-empty, get_recent_articles followed by sample_articles returns
\* exactly min(K, 5) entries, each with all five fields non-empty.
C1_ReturnsMinK5 ==
    /\ ~FetchRaised
    /\ FetchReturned =>
        /\ Len(sampled_articles) = Min(QualifyingCount(feed), 5)
        /\ \A n \in 1..Len(sampled_articles) :
               AllFiveNonEmpty(sampled_articles[n])

\* C2: the pipeline never raises; for an empty feed and for a feed whose
\* entries are all malformed it returns the empty sequence.
C2_NeverRaises ==
    LET allMalformed == \A k \in 1..Len(feed) : ~AllFivePresent(feed[k])
    IN  /\ pressed = "Fetch" => error = ""
        /\ (FetchReturned /\ allMalformed) => sampled_articles = << >>

\* C8: given pairwise distinct entries, the sample takes no entry twice and
\* keeps the order of the shuffled list: it is the first up-to-five
\* qualifying entries of that list, and no entry after the fifth qualifying
\* one is examined.
C8_FirstFiveInOrder ==
    (/\ FetchReturned
     /\ \A a, b \in 1..Len(articles) : a # b => articles[a] # articles[b])
    =>
    /\ Len(sampled_articles) <= 5
    /\ Len(picked) = Len(sampled_articles)
    /\ \A n \in 1..Len(picked) :
        /\ picked[n] \in 1..Len(articles)
        /\ AllFivePresent(articles[picked[n]])
        /\ sampled_articles[n].title = articles[picked[n]].title
        /\ sampled_articles[n].href = articles[picked[n]].link
        /\ sampled_articles[n].source_domain = articles[picked[n]].source.href
        /\ sampled_articles[n].source_title = articles[picked[n]].source.title
        /\ sampled_articles[n].published_date = articles[picked[n]].published
    /\ \A m, n \in 1..Len(picked) : m < n => picked[m] < picked[n]
    /\ \A i \in 1..examined :
        AllFivePresent(articles[i]) => \E n \in 1..Len(picked) : picked[n] = i
    /\ examined = IF Len(picked) = 5 THEN picked[5] ELSE Len(articles)

\* more than five qualify: the loop stopped at the fifth and left one unread
C8_Witness ==
    /\ FetchReturned
    /\ Len(sampled_articles) = 5
    /\ examined < Len(articles)

(***************************************************************************)
(* Properties of the widget, checked under Spec.                           *)
(***************************************************************************)
NoTitleWarning == "Please provide the article title"

\* the 'Fact check' handler of this run has been entered and left
FactCheckHandled ==
    /\ pressed = "Fact check"
    /\ probe = "ok"
    /\ pc \in {"result", "idle"}

\* C3: when 'Fact check' is pressed with an empty headline the validation
\* warning is shown and no chat-completion request is issued in that run.
C3_EmptyHeadlineNoRequest ==
    (pressed = "Fact check" /\ article_title = "") =>
        /\ requests = << >>
        /\ response = << >>
        /\ FactCheckHandled => NoTitleWarning \in shown

C3_Witness ==
    /\ pressed = "Fact check"
    /\ article_title = ""
    /\ pc = "idle"
    /\ NoTitleWarning \in shown

\* C4: a request for 'o1' or 'o1-mini' carries no temperature whatever the
\* slider says and the user is warned; a request for any other model of
\* MODEL_MAP carries the slider value.
C4_TemperatureOmittedForO1 ==
    \A n \in 1..Len(requests) :
        LET req == requests[n] IN
        /\ req.model \in {MODEL_MAP[m] : m \in ModelNames}
        /\ req.model \in {"o1", "o1-mini"} =>
              /\ req.temperature = << >>
              /\ "temperature will be ignored" \in shown
        /\ req.model \notin {"o1", "o1-mini"} =>
              req.temperature = << temperature >>

C4_Witness ==
    /\ Len(requests) = 1
    /\ requests[1].model = "o1-mini"
    /\ temperature = 7
    /\ requests[1].temperature = << >>

\* C5: a chat-completion request is issued only in a run in which a
\* non-empty credential was supplied and the models.list() probe succeeded;
\* with an empty credential or a failed probe api_key_valid is False and the
\* run has returned with neither the fetch nor the fact-check controls drawn.
C5_NoDispatchWithoutValidKey ==
    /\ [][Len(requests') > Len(requests) =>
            (openai_api_key # "" /\ probe = "ok" /\ api_key_valid = "True")]_vars
    /\ []((pc # "credential" /\ (openai_api_key = "" \/ probe = "fail")) =>
            /\ api_key_valid = "False"
            /\ pc = "idle"
            /\ rendered = {"OpenAI API Key"}
            /\ requests = << >>
            /\ feed = << >>
            /\ sampled_articles = << >>)

\* 'Fact check' was pressed with a headline, the probe of that run failed
C5_Witness ==
    /\ pressed = "Fact check"
    /\ article_title # ""
    /\ probe = "fail"
    /\ pc = "idle"
    /\ api_key_valid = "False"
    /\ requests = << >>

\* C6: the 'Fact check' handler with a non-empty headline issues exactly one
\* request, whether it succeeds or fails, and that request is determined by
\* the current headline, model and temperature alone.
C6_ExactlyOneRequest ==
    /\ Len(requests) <= 1
    /\ (/\ pressed = "Fact check"
        /\ article_title # ""
        /\ probe = "ok"
        /\ pc \in {"create", "result", "idle"})
       =>
        /\ Len(requests) = 1
        /\ requests[1] =
             [ model |-> MODEL_MAP[selected_model],
               messages |->
                 << [role |-> "user",
                     content |-> "I saw something today that claimed "
                        \o article_title
                        \o ". Do you think that this is likely to be true?"] >>,
               temperature |->
                 IF selected_model \in {"o1", "o1 Mini"} THEN << >>
                 ELSE << temperature >> ]

\* the request failed and the run ended: one request, no second one
C6_Witness ==
    /\ pressed = "Fact check"
    /\ pc = "idle"
    /\ error = "APIError"
    /\ Len(requests) = 1

\* C7: the request carries one message, of role 'user', whose content is
\* the template around the unmodified headline; its model is
\* MODEL_MAP[selected model]; what is displayed is the content of the first
\* candidate of the response.
C7_PromptAndResultVerbatim ==
    /\ \A n \in 1..Len(requests) :
        /\ Len(requests[n].messages) = 1
        /\ requests[n].messages[1].role = "user"
        /\ requests[n].messages[1].content =
              "I saw something today that claimed " \o article_title
                 \o ". Do you think that this is likely to be true?"
        /\ article_title = "The moon is made of cheese" =>
              requests[n].messages[1].content =
                 "I saw something today that claimed The moon is made of cheese. Do you think that this is likely to be true?"
        /\ requests[n].model = MODEL_MAP[selected_model]
        /\ selected_model = "GPT-4o Mini" => requests[n].model = "gpt-4o-mini"
    /\ displayed # << >> =>
        /\ response # << >>
        /\ displayed[1] = response[1].choices[1].message.content

C7_Witness ==
    /\ displayed # << >>
    /\ article_title = "The moon is made of cheese"
    /\ selected_model = "GPT-4o Mini"
    /\ Len(response[1].choices) = 2
    /\ response[1].choices[1] # response[1].choices[2]

\* C9: in a run in which 'Fact check' is pressed the result block only reads
\* a fact_check_result assigned from a completed request of that run; the
\* empty-headline run ends with the validation warning and no error.
C9_ResultBlockReadsAssigned ==
    pressed = "Fact check" =>
        /\ (pc = "result" \/ "Fact-checking Result" \in shown) =>
              (fact_check_result # << >> /\ response # << >>)
        /\ (article_title = "" /\ FactCheckHandled /\ pc = "idle") =>
              (NoTitleWarning \in shown /\ error = "")

\* C10: a step of a 'Fetch' run issues no request and leaves the model, the
\* temperature and the headline alone; a step of a 'Fact check' run neither
\* fetches nor samples.
C10_HandlersAreSeparate ==
    /\ [][(pc # "idle" /\ pressed = "Fetch") =>
            UNCHANGED << configVars, chatVars >>]_vars
    /\ [][(pc # "idle" /\ pressed = "Fact check") =>
            UNCHANGED << feedVars, articles_retrieved >>]_vars
    /\ [](pressed = "Fetch" => requests = << >>)
    /\ [](pressed = "Fact check" =>
            (feed = << >> /\ sampled_articles = << >> /\ examined = 0))

\* a fact check answered in a session that fetched before, with a
\* configuration the user changed
C10_Witness ==
    /\ pressed = "Fact check"
    /\ displayed # << >>
    /\ articles_retrieved
    /\ selected_model # DefaultModel
    /\ temperature # DefaultTemperature

====
